---------------------------- MODULE Spec2Model ----------------------------
(***************************************************************************)
(* Incremental OHLCV store of quant-strategy-self-course.                  *)
(*                                                                         *)
(* Two programs write Series files:                                        *)
(*   - CryptoDataFetcher (src/src/utils/crypto_data_fetcher.py), driven by *)
(*     scripts/update_symbol_latest.py, scripts/fetch_1m_ohlcv.py and the  *)
(*     module's own main(): one canonical CSV per symbol and timeframe;    *)
(*   - the bundle importer (src/scripts/import_binance_bundles.py): one    *)
(*     CSV per symbol, timeframe and calendar month.                       *)
(* The two write disjoint paths, so a behaviour follows one program        *)
(* (variable program, chosen in Init).                                     *)
(*                                                                         *)
(* Time is in milliseconds, as in the exchange API.  A row of a Series is  *)
(* [ts |-> open time, v |-> close]; the other OHLCV columns travel with    *)
(* the row and are never inspected by the writers.                         *)
(***************************************************************************)
EXTENDS Integers, Sequences, FiniteSets, TLC

\* ------------------------------------------------------------------ bounds
\* Number of distinct candle instants the exchange / the bundles can hold.
MaxBars == 2
\* Rows per exchange page (the `limit` argument; 1000 in the chunk loops).
PageLimit == 2
\* Rows of one decoded bundle frame.
MaxBundleRows == 2
\* Largest value of time.time() a request may be issued at.
MaxClock == 4
\* Largest rate_limit a fetcher is constructed with.
MaxRate == 2
\* Rows a month file may hold when partition_file appends to it.
MaxPartitionRows == 4

\* ------------------------------------------------------- program constants
MsPerMinute == 60000
MsPerHour == 3600000
MsPerDay == 86400000

\* ------------------------------------------------------------ value spaces
Symbols == <<"BTC/USDT", "ETH/USDT">>
SymbolSet == {Symbols[i] : i \in 1..Len(Symbols)}
Timeframes == {"1m", "1h", "1d"}

\* Candle instants straddle the midnight that starts the day of the run.
Instants == {MsPerDay - 1 + k : k \in 0..(MaxBars - 1)}
\* Close values: two suffice to tell a stored row from a fetched one.
Vals == {1, 2}
Rows == [ts : Instants, v : Vals]

\* The wall clock at the start of a run (datetime.utcnow()).
NowChoices == {MsPerDay + 1, 2 * MsPerDay}
\* days_back: an integer, or None as update_symbol_latest.main passes it.
None == -1
DaysBackChoices == {None, 2}
OverlapChoices == {1, 2}

SeqsUpTo(S, n) == UNION {[1..k -> S] : k \in 0..n}

RowsOf(s) == {s[i] : i \in 1..Len(s)}
TsOf(s) == {s[i].ts : i \in 1..Len(s)}

\* Non-decreasing timestamps (the order ccxt returns candles in).
Ascending(s) == \A i \in 1..Len(s) : \A j \in i..Len(s) : s[i].ts <= s[j].ts
\* Strictly increasing timestamps: sorted and one row per timestamp.
StrictlyIncreasing(s) ==
    \A i \in 1..Len(s) : \A j \in (i + 1)..Len(s) : s[i].ts < s[j].ts

\* --------------------------------------------------------- pandas helpers
RECURSIVE PickFrom(_, _, _)
PickFrom(s, keep, i) ==
    IF i > Len(s) THEN << >>
    ELSE (IF i \in keep THEN <<s[i]>> ELSE << >>) \o PickFrom(s, keep, i + 1)

\* Variant: keep='first', the stored row wins.
DropDuplicatedKeepFirst(s) ==
    PickFrom(s, {i \in 1..Len(s) :
                    \A j \in 1..(i - 1) : s[j].ts # s[i].ts}, 1)

\* df[~df.index.duplicated(keep='last')]
DropDuplicatedKeepLast(s) ==
    PickFrom(s, {i \in 1..Len(s) :
                    \A j \in (i + 1)..Len(s) : s[j].ts # s[i].ts}, 1)

RECURSIVE InsertByTs(_, _)
InsertByTs(sorted, r) ==
    IF sorted = << >> THEN <<r>>
    ELSE IF Head(sorted).ts <= r.ts
         THEN <<Head(sorted)>> \o InsertByTs(Tail(sorted), r)
         ELSE <<r>> \o sorted

RECURSIVE SortIndex(_)
\* df.sort_index(): ascending by timestamp.
SortIndex(s) ==
    IF s = << >> THEN << >>
    ELSE InsertByTs(SortIndex(SubSeq(s, 1, Len(s) - 1)), s[Len(s)])

\* df[df.index <= end]
TrimToEnd(s, end) == SelectSeq(s, LAMBDA r : r.ts <= end)

\* df[df.index > last_ts]
RowsAfter(s, last) == SelectSeq(s, LAMBDA r : r.ts > last)

RECURSIVE Concat(_)
\* pd.concat(list of frames)
Concat(frames) ==
    IF frames = << >> THEN << >> ELSE Head(frames) \o Concat(Tail(frames))

\* Variant: concat and sort, duplicates left in.
MergeWithoutDedup(old, new) == SortIndex(old \o new)

\* Variant: the file is rewritten from the new rows alone.
MergeFramesNewOnly(old, new) == SortIndex(DropDuplicatedKeepLast(new))

\* concat, keep the last row per timestamp, sort.
MergeFrames(old, new) == SortIndex(DropDuplicatedKeepLast(old \o new))


\* ------------------------------------------------------------------ state
VARIABLES
    program,            \* "fetcher" or "importer": the program this behaviour runs
    timeframe,          \* the timeframe argument of every call of the behaviour
    rate_limit,         \* CryptoDataFetcher.rate_limit (constructor argument)
    clock,              \* time.time()
    last_request_time,  \* CryptoDataFetcher.last_request_time
    file,               \* canonical CSV per symbol: [exists, rows]
    manifest,           \* manifest_<timeframe>.yaml per symbol
    partition,          \* importer: month partition CSV per month
    month_manifest,     \* importer: manifest_<timeframe>_<YYYY-MM>.yaml per month
    pc,                 \* position of the running call
    call,               \* arguments of the running call
    idx,                \* index of the current symbol in call.symbols
    since_ms,           \* update_symbols_to_now / fetch_historical_data start
    end_time_ms,        \* requested end of the fetch window
    current_since,      \* cursor of the chunk loop
    all_chunks,         \* pages appended so far (all_data / all_chunks)
    existing,           \* local `existing`: rows read from the file
    had_file,           \* local: filepath.exists() when the writer looked
    combined_df,        \* local: the new rows handed to the merge
    final_df,           \* local: the rows the writer ends with
    data_dict,          \* fetch result passed to save_data: symbol -> frame
    results,            \* update_symbols_to_now's results dict
    error,              \* the exception that ended the call, "" if none
    wrote,              \* history: symbol or month the latest step wrote for
    requests,           \* history: requests issued for the current symbol
    failed_at,          \* history: number of the request that raised, 0 if none
    raised_syms,        \* history: symbols of this call with a raised request
    visited,            \* history: symbols of this call whose iteration ended
    prev_recorded,      \* history: last_request_time before the latest request
    issued_at,          \* history: clock when the latest request was issued
    last_page,          \* history: the frame the latest request came back with
    utc_offset,         \* the host's local time minus UTC, in ms
    bundle,             \* importer: bundle file per slot of the bundle dir
    tf_dir,             \* importer: <bundle_dir>/<timeframe> exists
    reads,              \* importer: outcome of read_bundle_csv per slot, this run
    month_infos,        \* importer: main's month_infos of the current symbol
    year_manifest,      \* importer: manifest_year_<YYYY>.yaml per year
    exit_code,          \* importer: what main returned, None while it runs
    names,              \* importer: the symbol in the name of each bundle file
    json_manifests,     \* timeframes with a crypto_manifest_*.json in the data dir
    validator           \* the CryptoDataValidator last constructed

vars == <<program, timeframe, rate_limit, clock, last_request_time, file,
          manifest, partition, month_manifest, pc, call, idx, since_ms,
          end_time_ms, current_since, all_chunks, existing, had_file,
          combined_df, final_df, data_dict, results, error, wrote, requests,
          failed_at, raised_syms, visited, prev_recorded, issued_at,
          last_page, utc_offset, bundle, tf_dir, reads, month_infos,
          year_manifest, exit_code, names, json_manifests, validator>>

fileVars == <<file, manifest>>
bundleVars == <<bundle, tf_dir, reads, month_infos, year_manifest, exit_code>>
importVars == <<partition, month_manifest, bundleVars>>
timeVars == <<clock, last_request_time, prev_recorded, issued_at>>
localVars == <<existing, had_file, combined_df, final_df, wrote>>
histVars == <<requests, failed_at, raised_syms, visited, last_page>>
validatorVars == <<json_manifests, validator>>
constVars == <<program, timeframe, rate_limit, utc_offset, names>>

Months == {"2024-01", "2024-02"}

NoFrame == [present |-> FALSE, rows |-> << >>]
Frame(rows) == [present |-> TRUE, rows |-> rows]
NoFile == [exists |-> FALSE, rows |-> << >>]
FileOf(rows) == [exists |-> TRUE, rows |-> rows]

\* total_return_pct as a manifest holds it: a number num/den, null (None),
\* the floats inf and nan, or no key at all.
NullPct == [kind |-> "null", num |-> 0, den |-> 1]
InfPct == [kind |-> "inf", num |-> 0, den |-> 1]
NanPct == [kind |-> "nan", num |-> 0, den |-> 1]
AbsentPct == [kind |-> "absent", num |-> 0, den |-> 1]
Pct(n, d) == [kind |-> "num", num |-> n, den |-> d]

NoManifest == [exists |-> FALSE, rows |-> 0, start_date |-> 0, end_date |-> 0,
               total_return |-> AbsentPct]

NoCall == [op |-> "none", symbols |-> << >>, days_back |-> 0, overlap |-> 0,
           include_now |-> FALSE, now |-> 0, month |-> "", dry_run |-> FALSE,
           force |-> FALSE]



\* ------------------------------------------------------------ the exchange
\* A page as self.exchange.fetch_ohlcv hands it over: at most `limit` rows,
\* ascending, none before `since` when a `since` is given.  Duplicate
\* timestamps inside a page are not excluded.
Pages(R) == {p \in SeqsUpTo(R, PageLimit) : Ascending(p)}
PagesFrom(R, since) ==
    {p \in Pages(R) : \A i \in 1..Len(p) : p[i].ts >= since}
\* What a request comes back with: an exception, or a page.
Raised == [raised |-> TRUE, page |-> << >>]
Returned(p) == [raised |-> FALSE, page |-> p]
Outcomes(R, since) == {Raised} \cup {Returned(p) : p \in PagesFrom(R, since)}
OutcomesNoSince(R) == {Raised} \cup {Returned(p) : p \in Pages(R)}

\* ------------------------------------------------------------- the fetcher
\* Variant: the limiter records the time but never sleeps.
RespectRateLimitNoSleep(wake) ==
    /\ wake >= clock
    /\ clock' = wake
    /\ last_request_time' = wake

\* _respect_rate_limit: sleep until rate_limit has elapsed since the recorded
\* time, then record the time.  wake is the clock when the method returns.
RespectRateLimit(wake) ==
    LET elapsed == clock - last_request_time
        sleep_time == IF elapsed < rate_limit THEN rate_limit - elapsed ELSE 0
    IN  /\ wake >= clock + sleep_time
        /\ clock' = wake
        /\ last_request_time' = wake

\* Variant: the exception leaves the method.
FetchOhlcvSafeRaising(out) ==
    IF out.raised THEN [df |-> << >>, exc |-> "RequestError"]
    ELSE [df |-> out.page, exc |-> ""]

\* fetch_ohlcv_safe after the rate limiter: the try block.  exc is the
\* exception that leaves the method ("" when none does).
FetchOhlcvSafe(out) ==
    IF out.raised THEN [df |-> << >>, exc |-> ""]
    ELSE [df |-> out.page, exc |-> ""]

\* The interval of update_symbols_to_now.
Interval(tf) ==
    CASE tf = "1h" -> MsPerHour
      [] tf = "1d" -> MsPerDay
      [] OTHER -> MsPerHour

\* datetime(now.year, now.month, now.day)
StartOfToday(now) == (now \div MsPerDay) * MsPerDay

\* datetime.timestamp() of a naive datetime holding UTC fields: Python reads
\* the fields as local time.
LocalTimestamp(naive) == naive - utc_offset

\* end_time_ms of update_symbols_to_now
EndTimeMs(now, include_now) ==
    IF include_now THEN LocalTimestamp(now)
    ELSE LocalTimestamp(StartOfToday(now) - 1)

\* Variant: the resume point is taken from the manifest's end_date when the
\* manifest has one (what _read_manifest_end_date would serve).
ResumeSinceFromManifest(rows, overlap, tf) ==
    LET m == manifest[call.symbols[idx]]
    IN (IF m.exists /\ m.end_date # None THEN m.end_date
        ELSE rows[Len(rows)].ts) - overlap * Interval(tf)

\* since_ms of update_symbols_to_now for an existing, non-empty file.
ResumeSince(rows, overlap, tf) == rows[Len(rows)].ts - overlap * Interval(tf)

\* since_ms when there is no file; days_back is an integer here.
LookbackSince(now, days_back) == LocalTimestamp(now - days_back * MsPerDay)

\* Variant: the page that reaches the end is kept whole and the loop goes on.
ChunkStepNoTrim(chunks, cursor, end, df) ==
    IF df = << >>
    THEN [chunks |-> chunks, cursor |-> cursor, more |-> FALSE]
    ELSE LET last_ts == df[Len(df)].ts IN
         IF Len(df) < PageLimit
         THEN [chunks |-> Append(chunks, df), cursor |-> cursor,
               more |-> FALSE]
         ELSE [chunks |-> Append(chunks, df), cursor |-> last_ts + 1,
               more |-> TRUE]

\* Variant: the cursor moves to the last timestamp, not past it.
ChunkStepCursorAtLast(chunks, cursor, end, df) ==
    IF df = << >>
    THEN [chunks |-> chunks, cursor |-> cursor, more |-> FALSE]
    ELSE LET last_ts == df[Len(df)].ts IN
         IF last_ts >= end
         THEN [chunks |-> Append(chunks, TrimToEnd(df, end)),
               cursor |-> cursor, more |-> FALSE]
         ELSE IF Len(df) < PageLimit
         THEN [chunks |-> Append(chunks, df), cursor |-> cursor,
               more |-> FALSE]
         ELSE [chunks |-> Append(chunks, df), cursor |-> last_ts,
               more |-> TRUE]

\* Variant: an empty page is appended to the chunks before the loop ends.
ChunkStepKeepsEmpty(chunks, cursor, end, df) ==
    IF df = << >>
    THEN [chunks |-> Append(chunks, df), cursor |-> cursor, more |-> FALSE]
    ELSE LET last_ts == df[Len(df)].ts IN
         IF last_ts >= end
         THEN [chunks |-> Append(chunks, TrimToEnd(df, end)),
               cursor |-> cursor, more |-> FALSE]
         ELSE IF Len(df) < PageLimit
         THEN [chunks |-> Append(chunks, df), cursor |-> cursor,
               more |-> FALSE]
         ELSE [chunks |-> Append(chunks, df), cursor |-> last_ts + 1,
               more |-> TRUE]

\* One iteration of the chunk loop on the page df.
ChunkStep(chunks, cursor, end, df) ==
    IF df = << >>
    THEN [chunks |-> chunks, cursor |-> cursor, more |-> FALSE]
    ELSE LET last_ts == df[Len(df)].ts IN
         IF last_ts >= end
         THEN [chunks |-> Append(chunks, TrimToEnd(df, end)),
               cursor |-> cursor, more |-> FALSE]
         ELSE IF Len(df) < PageLimit
         THEN [chunks |-> Append(chunks, df), cursor |-> cursor,
               more |-> FALSE]
         ELSE [chunks |-> Append(chunks, df), cursor |-> last_ts + 1,
               more |-> TRUE]

\* pd.concat(chunks), drop duplicated index keeping the last, sort_index.
CombineChunks(chunks) == SortIndex(DropDuplicatedKeepLast(Concat(chunks)))

\* The YAML manifest written from final_df (rows, start_date, end_date).
\* (last / first - 1) * 100 on numpy floats: a zero divisor gives nan or inf
\* with a warning, never an exception.
NumpyReturnPct(first, last) ==
    IF first # 0 THEN Pct((last - first) * 100, first)
    ELSE IF last = 0 THEN NanPct ELSE InfPct

\* total_return_pct of save_data and update_symbols_to_now.
TotalReturnPct(df) ==
    IF Len(df) >= 2 THEN NumpyReturnPct(df[1].v, df[Len(df)].v) ELSE NullPct

\* Variant: the end date is taken from the first row.
ManifestOfFirstRow(df) ==
    [exists |-> TRUE, rows |-> Len(df), start_date |-> df[1].ts,
     end_date |-> df[1].ts, total_return |-> TotalReturnPct(df)]

\* The per-symbol manifest of save_data and update_symbols_to_now; df is
\* not empty (index[0] of an empty frame raises).
ManifestOf(df) ==
    [exists |-> TRUE, rows |-> Len(df), start_date |-> df[1].ts,
     end_date |-> df[Len(df)].ts, total_return |-> TotalReturnPct(df)]

CurSym == call.symbols[idx]

Crash(e) ==
    /\ pc' = "crashed"
    /\ error' = e

ResetHist ==
    /\ last_page' = << >>
    /\ requests' = 0
    /\ failed_at' = 0
    /\ raised_syms' = {}
    /\ visited' = {}

\* The request of one fetch_ohlcv_safe call, with its history.
Request(out, wake) ==
    /\ RespectRateLimit(wake)
    /\ prev_recorded' = last_request_time
    /\ issued_at' = clock'
    /\ last_page' = FetchOhlcvSafe(out).df
    /\ requests' = requests + 1
    /\ failed_at' = IF out.raised THEN requests + 1 ELSE failed_at
    /\ raised_syms' = IF out.raised THEN raised_syms \cup {CurSym}
                      ELSE raised_syms

\* update_symbols_to_now(symbols, timeframe, days_back, overlap, include_now)
UpdateStart(syms, days_back, overlap, include_now, now) ==
    /\ pc = "idle"
    /\ program = "fetcher"
    /\ call' = [NoCall EXCEPT !.op = "update", !.symbols = syms,
                  !.days_back = days_back, !.overlap = overlap,
                  !.include_now = include_now, !.now = now]
    /\ idx' = 1
    /\ pc' = "upd_plan"
    /\ results' = [s \in SymbolSet |-> NoFrame]
    /\ ResetHist
    /\ UNCHANGED <<constVars, validatorVars,
                   fileVars, importVars, timeVars, localVars,
                   since_ms, end_time_ms, current_since, all_chunks,
                   data_dict, error>>

\* Top of the per-symbol loop: the resume point and the end of the window.
UpdatePlan ==
    /\ pc = "upd_plan"
    /\ LET f == file[CurSym] IN
       /\ had_file' = f.exists
       /\ existing' = f.rows
       /\ IF f.exists /\ f.rows = << >>
          THEN /\ Crash("IndexError")
               /\ UNCHANGED <<since_ms, end_time_ms, current_since>>
          ELSE IF ~f.exists /\ call.days_back = None
          THEN /\ Crash("TypeError")
               /\ UNCHANGED <<since_ms, end_time_ms, current_since>>
          ELSE LET since == IF f.exists
                            THEN ResumeSince(f.rows, call.overlap, timeframe)
                            ELSE LookbackSince(call.now, call.days_back)
               IN /\ since_ms' = since
                  /\ current_since' = since
                  /\ end_time_ms' = EndTimeMs(call.now, call.include_now)
                  /\ pc' = "upd_fetch"
                  /\ UNCHANGED error
    /\ all_chunks' = << >>
    /\ combined_df' = << >>
    /\ final_df' = << >>
    /\ wrote' = ""
    /\ requests' = 0
    /\ failed_at' = 0
    /\ UNCHANGED <<constVars, validatorVars,
                   fileVars, importVars, timeVars, call, idx,
                   data_dict, results, raised_syms, visited, last_page>>

\* One pass of `while True` in update_symbols_to_now.
UpdateFetch(out, wake) ==
    /\ pc = "upd_fetch"
    /\ Request(out, wake)
    /\ LET r == FetchOhlcvSafe(out)
           step == ChunkStep(all_chunks, current_since, end_time_ms, r.df)
       IN IF r.exc # ""
          THEN /\ Crash(r.exc)
               /\ UNCHANGED <<all_chunks, current_since>>
          ELSE /\ all_chunks' = step.chunks
               /\ current_since' = step.cursor
               /\ pc' = IF step.more THEN "upd_fetch" ELSE "upd_write"
               /\ UNCHANGED error
    /\ UNCHANGED <<constVars, validatorVars,
                   fileVars, importVars, localVars, call, idx,
                   since_ms, end_time_ms, data_dict, results, visited>>

\* After the loop: merge into the CSV, then write the manifest.
UpdateWrite ==
    /\ pc = "upd_write"
    /\ LET s == CurSym
           f == file[s]
           combined == CombineChunks(all_chunks)
           merged == MergeFrames(f.rows, combined)
           written == IF f.exists THEN merged ELSE combined
           res == IF all_chunks # << >> THEN Frame(written)
                  ELSE IF f.exists THEN Frame(f.rows) ELSE NoFrame
       IN /\ had_file' = f.exists
          /\ existing' = f.rows
          /\ combined_df' = IF all_chunks # << >> THEN combined ELSE << >>
          /\ file' = IF all_chunks # << >>
                     THEN [file EXCEPT ![s] = FileOf(written)] ELSE file
          /\ results' = [results EXCEPT ![s] = res]
          /\ final_df' = res.rows
          /\ manifest' = IF res.present /\ res.rows # << >>
                         THEN [manifest EXCEPT ![s] = ManifestOf(res.rows)]
                         ELSE manifest
          /\ visited' = visited \cup {s}
          /\ wrote' = s
    /\ idx' = idx + 1
    /\ pc' = IF idx = Len(call.symbols) THEN "done" ELSE "upd_plan"
    /\ UNCHANGED <<constVars, validatorVars,
                   importVars, timeVars, call, since_ms,
                   end_time_ms, current_since, all_chunks, data_dict, error,
                   requests, failed_at, raised_syms, last_page>>


\* fetch_historical_data(symbols, timeframe, days_back), end_time_ms omitted
\* as every caller does: the window ends at end-of-yesterday.
HistStart(syms, days_back, now) ==
    /\ pc = "idle"
    /\ program = "fetcher"
    /\ call' = [NoCall EXCEPT !.op = "history", !.symbols = syms,
                  !.days_back = days_back, !.now = now]
    /\ idx' = 1
    /\ since_ms' = LookbackSince(now, days_back)
    /\ end_time_ms' = EndTimeMs(now, FALSE)
    /\ data_dict' = [s \in SymbolSet |-> NoFrame]
    /\ pc' = "hist_begin"
    /\ ResetHist
    /\ UNCHANGED <<constVars, validatorVars,
                   fileVars, importVars, timeVars, localVars,
                   current_since, all_chunks, results, error>>

\* Top of `for symbol in symbols`: an empty chunk list, the cursor at start.
HistBegin ==
    /\ pc = "hist_begin"
    /\ all_chunks' = << >>
    /\ current_since' = since_ms
    /\ combined_df' = << >>
    /\ requests' = 0
    /\ failed_at' = 0
    /\ pc' = "hist_fetch"
    /\ UNCHANGED <<constVars, validatorVars,
                   fileVars, importVars, timeVars, call, idx,
                   since_ms, end_time_ms, existing, had_file, final_df, wrote,
                   data_dict, results, error, raised_syms, visited, last_page>>

\* One pass of `while True` in fetch_historical_data.
HistFetch(out, wake) ==
    /\ pc = "hist_fetch"
    /\ Request(out, wake)
    /\ LET r == FetchOhlcvSafe(out)
           step == ChunkStep(all_chunks, current_since, end_time_ms, r.df)
       IN IF r.exc # ""
          THEN /\ Crash(r.exc)
               /\ UNCHANGED <<all_chunks, current_since>>
          ELSE /\ all_chunks' = step.chunks
               /\ current_since' = step.cursor
               /\ pc' = IF step.more THEN "hist_fetch" ELSE "hist_combine"
               /\ UNCHANGED error
    /\ UNCHANGED <<constVars, validatorVars,
                   fileVars, importVars, localVars, call, idx,
                   since_ms, end_time_ms, data_dict, results, visited>>

\* After the loop: combine the chunks into data_dict[symbol]; then the next
\* symbol, or save_data(data_dict, timeframe) as the callers do.
HistCombine ==
    /\ pc = "hist_combine"
    /\ LET combined == CombineChunks(all_chunks) IN
       /\ combined_df' = IF all_chunks # << >> THEN combined ELSE << >>
       /\ data_dict' = IF all_chunks # << >>
                       THEN [data_dict EXCEPT ![CurSym] = Frame(combined)]
                       ELSE data_dict
    /\ visited' = visited \cup {CurSym}
    /\ IF idx = Len(call.symbols)
       THEN pc' = "save" /\ idx' = 1
       ELSE pc' = "hist_begin" /\ idx' = idx + 1
    /\ UNCHANGED <<constVars, validatorVars,
                   fileVars, importVars, timeVars, call, since_ms,
                   end_time_ms, current_since, all_chunks, existing, had_file,
                   final_df, wrote, results, error, requests, failed_at,
                   raised_syms, last_page>>

\* scripts/fetch_1m_ohlcv.py main with --limit: one fetch_ohlcv_safe call per
\* symbol with since=None, the page going into the dict as it came.
LimitStart(syms) ==
    /\ pc = "idle"
    /\ program = "fetcher"
    /\ timeframe = "1m"
    /\ call' = [NoCall EXCEPT !.op = "limit", !.symbols = syms]
    /\ idx' = 1
    /\ data_dict' = [s \in SymbolSet |-> NoFrame]
    /\ pc' = "lim_fetch"
    /\ ResetHist
    /\ UNCHANGED <<constVars, validatorVars,
                   fileVars, importVars, timeVars, localVars,
                   since_ms, end_time_ms, current_since, all_chunks, results,
                   error>>

LimitFetch(out, wake) ==
    /\ pc = "lim_fetch"
    /\ Request(out, wake)
    /\ LET r == FetchOhlcvSafe(out) IN
       IF r.exc # ""
       THEN /\ Crash(r.exc)
            /\ UNCHANGED <<data_dict, idx, visited>>
       ELSE /\ data_dict' = [data_dict EXCEPT ![CurSym] = Frame(r.df)]
            /\ visited' = visited \cup {CurSym}
            /\ IF idx = Len(call.symbols)
               THEN pc' = "save" /\ idx' = 1
               ELSE pc' = "lim_fetch" /\ idx' = idx + 1
            /\ UNCHANGED error
    /\ UNCHANGED <<constVars, validatorVars,
                   fileVars, importVars, localVars, call,
                   since_ms, end_time_ms, current_since, all_chunks, results>>

\* save_data: one iteration of `for symbol, df in data_dict.items()`.
SaveSymbol ==
    /\ pc = "save"
    /\ LET s == CurSym
           df == data_dict[s].rows
           f == file[s]
           new_rows == RowsAfter(df, f.rows[Len(f.rows)].ts)
           combined == MergeFrames(f.rows, new_rows)
           final == IF ~f.exists THEN df
                    ELSE IF new_rows # << >> THEN combined ELSE f.rows
       IN IF df = << >>
          THEN /\ UNCHANGED <<fileVars, localVars, error>>
               /\ idx' = idx + 1
               /\ pc' = IF idx = Len(call.symbols) THEN "done" ELSE "save"
          ELSE IF f.exists /\ f.rows = << >>
          THEN /\ Crash("IndexError")
               /\ had_file' = TRUE
               /\ existing' = << >>
               /\ UNCHANGED <<fileVars, combined_df, final_df, wrote, idx>>
          ELSE /\ had_file' = f.exists
               /\ existing' = f.rows
               /\ combined_df' = df
               /\ final_df' = final
               /\ wrote' = s
               /\ file' = [file EXCEPT ![s] = FileOf(final)]
               /\ manifest' = [manifest EXCEPT ![s] = ManifestOf(final)]
               /\ idx' = idx + 1
               /\ pc' = IF idx = Len(call.symbols) THEN "done" ELSE "save"
               /\ UNCHANGED error
    /\ UNCHANGED <<constVars, validatorVars,
                   importVars, timeVars, call, since_ms,
                   end_time_ms, current_since, all_chunks, data_dict, results,
                   histVars>>

\* The call returns, or its exception ends the script.
Exit ==
    /\ pc \in {"done", "crashed"}
    /\ pc' = "idle"
    /\ call' = NoCall
    /\ idx' = 0
    /\ since_ms' = 0
    /\ end_time_ms' = 0
    /\ current_since' = 0
    /\ all_chunks' = << >>
    /\ existing' = << >>
    /\ had_file' = FALSE
    /\ combined_df' = << >>
    /\ final_df' = << >>
    /\ wrote' = ""
    /\ data_dict' = [s \in SymbolSet |-> NoFrame]
    /\ results' = [s \in SymbolSet |-> NoFrame]
    /\ error' = ""
    /\ ResetHist
    /\ UNCHANGED <<constVars, validatorVars, fileVars, importVars, timeVars>>

\* ------------------------------------------------------- the bundle importer
\* A decoded bundle frame: rows in file order, any timestamps.
BundleFrames == SeqsUpTo(Rows, MaxBundleRows)

\* total_return_pct of write_month_partition: set only for a frame with
\* rows, None when the first close is 0.
MonthTotalReturnPct(df) ==
    IF df = << >> THEN AbsentPct
    ELSE IF df[1].v # 0
         THEN Pct((df[Len(df)].v - df[1].v) * 100, df[1].v)
         ELSE NullPct

\* The per-month manifest: rows, start_date and end_date, None when empty.
MonthManifestOf(df) ==
    [exists |-> TRUE, rows |-> Len(df),
     start_date |-> IF df = << >> THEN None ELSE df[1].ts,
     end_date |-> IF df = << >> THEN None ELSE df[Len(df)].ts,
     total_return |-> MonthTotalReturnPct(df)]

\* Variant: --dry-run is ignored and the file is written.
PersistAlways(dry_run, old, new) == new

\* `if not dry_run:` around every write of the importer: what a file holds
\* afterwards, given what it held (old) and what the run has for it (new).
Persist(dry_run, old, new) == IF dry_run THEN old ELSE new

\* The rows write_month_partition reads as `existing`.
ExistingRows(f, dry_run) == IF f.exists /\ ~dry_run THEN f.rows ELSE << >>

\* `combined` of write_month_partition.
CombineMonth(old, df) ==
    SortIndex(DropDuplicatedKeepLast(IF old # << >> THEN old \o df ELSE df))

\* write_month_partition(df, base, timeframe, year_month, ..., dry_run, force)
WriteMonthPartition(m, df, dry_run, force) ==
    /\ pc = "idle"
    /\ program = "importer"
    /\ LET f == partition[m]
           old == ExistingRows(f, dry_run)
           combined == CombineMonth(old, df)
       IN /\ had_file' = f.exists
          /\ existing' = old
          /\ combined_df' = df
          /\ final_df' = combined
          /\ partition' = Persist(dry_run, partition,
                                   [partition EXCEPT ![m] = FileOf(combined)])
          /\ month_manifest' =
                Persist(dry_run, month_manifest,
                        [month_manifest EXCEPT ![m] = MonthManifestOf(combined)])
    /\ call' = [NoCall EXCEPT !.op = "write_month_partition", !.month = m,
                  !.dry_run = dry_run, !.force = force]
    /\ wrote' = m
    /\ pc' = "done"
    /\ UNCHANGED <<constVars, validatorVars,
                   fileVars, timeVars, bundleVars, idx, since_ms, end_time_ms,
                   current_since, all_chunks, data_dict, results, error,
                   histVars>>

\* ---------------------------------------------------------- bundle files
\* The bundle files of one symbol and timeframe, by the date in their name:
\* <SYMBOL>-<tf>-<slot>.csv.  A month name is a monthly file, a day name a
\* daily one.
Slots == {"2024-01", "2024-01-01", "2024-01-02", "2024-02"}
Years == {"2024"}

\* month_from_filename: the first seven characters of the date.
MonthFromFilename(slot) ==
    CASE slot \in {"2024-01", "2024-01-01", "2024-01-02"} -> "2024-01"
      [] slot = "2024-02" -> "2024-02"

\* mon.split('-')[0]
YearOf(mon) == CASE mon \in {"2024-01", "2024-02"} -> "2024"

\* An open-time is written in units of 10^6 (ScaledBy): 1700 stands for
\* 1_700_000_000.  The thresholds and the ranges below are scaled alike.
ScaledBy == 1000000
UsThreshold == 100000000
MsThreshold == 100000
\* The largest open-time pd.to_datetime decodes (Timestamp.max, year 2262),
\* in seconds and in milliseconds; beyond it errors='coerce' gives NaT.
MaxSeconds == 9223
MaxMillis == 9223372

\* A raw bundle file: its column count and its rows; a row is its first
\* column (numeric or not) and its close.
NoRaw == [present |-> FALSE, cols |-> 0, rows |-> << >>]
RawFile(cols, rows) == [present |-> TRUE, cols |-> cols, rows |-> rows]
RawRow(ot, v) == [numeric |-> TRUE, open_time |-> ot, v |-> v]
BadRow(v) == [numeric |-> FALSE, open_time |-> 0, v |-> v]

Abs(n) == IF n < 0 THEN -n ELSE n

RECURSIVE MaxAbs(_)
\* df['open_time'].abs().max(), 0 for no row
MaxAbs(rows) ==
    IF rows = << >> THEN 0
    ELSE LET rest == MaxAbs(Tail(rows))
             a == Abs(Head(rows).open_time)
         IN IF a > rest THEN a ELSE rest

\* Variant: the thresholds belong to the larger unit.
DetectUnitInclusive(max_ot) ==
    IF max_ot >= UsThreshold THEN "us"
    ELSE IF max_ot >= MsThreshold THEN "ms"
    ELSE "s"

\* The unit read_bundle_csv picks for a file.
DetectUnit(max_ot) ==
    IF max_ot > UsThreshold THEN "us"
    ELSE IF max_ot > MsThreshold THEN "ms"
    ELSE "s"

NaT == [nat |-> TRUE, sec |-> 0]
At(sec) == [nat |-> FALSE, sec |-> sec]

\* pd.to_datetime(open_time, unit=unit, utc=True, errors='coerce'): the
\* instant in seconds since the epoch, NaT when out of range.
ToDatetime(ot, unit) ==
    CASE unit = "us" -> At(ot)
      [] unit = "ms" ->
            IF Abs(ot) > MaxMillis THEN NaT ELSE At(ot * (ScaledBy \div 1000))
      [] unit = "s" ->
            IF Abs(ot) > MaxSeconds THEN NaT ELSE At(ot * ScaledBy)

RECURSIVE DecodeRows(_, _)
\* Every row decoded with the file's unit; rows that give NaT are dropped.
DecodeRows(rows, unit) ==
    IF rows = << >> THEN << >>
    ELSE LET d == ToDatetime(Head(rows).open_time, unit)
         IN (IF d.nat THEN << >> ELSE <<[ts |-> d.sec, v |-> Head(rows).v]>>)
            \o DecodeRows(Tail(rows), unit)

Unread == [state |-> "unread", unit |-> "", frame |-> << >>]
ReadFailed == [state |-> "failed", unit |-> "", frame |-> << >>]
ReadOk(unit, frame) == [state |-> "ok", unit |-> unit, frame |-> frame]

\* read_bundle_csv(path): RuntimeError for fewer than 6 columns; rows whose
\* first column is no number are dropped; one unit for the file.
ReadBundleCsv(raw) ==
    IF raw.cols < 6 THEN ReadFailed
    ELSE LET valid == SelectSeq(raw.rows, LAMBDA r : r.numeric)
             unit == DetectUnit(MaxAbs(valid))
         IN ReadOk(unit, DecodeRows(valid, unit))

NoInfo == [present |-> FALSE, rows |-> 0, start_date |-> None,
           end_date |-> None]
NoYearManifest == [exists |-> FALSE, months |-> {}, rows |-> 0]

\* read_bundle_csv called on the file of one slot.
ReadBundleFile(slot) ==
    /\ pc = "idle"
    /\ program = "reader"
    /\ bundle[slot].present
    /\ reads[slot] = Unread
    /\ reads' = [reads EXCEPT ![slot] = ReadBundleCsv(bundle[slot])]
    /\ UNCHANGED <<constVars, validatorVars,
                   fileVars, partition, month_manifest, bundle,
                   tf_dir, month_infos, year_manifest, exit_code, timeVars,
                   localVars, histVars, pc, call, idx, since_ms, end_time_ms,
                   current_since, all_chunks, data_dict, results, error>>

\* ------------------------------------------------- import_binance_bundles
MonthSeq == <<"2024-01", "2024-02">>

\* The symbol main searches bundles for (sym), and two other symbols a
\* bundle file can be named after; a symbol is its sequence of characters.
BTCUSDT == <<"B", "T", "C", "U", "S", "D", "T">>
XBTCUSDT == <<"X">> \o BTCUSDT
ETHUSDT == <<"E", "T", "H", "U", "S", "D", "T">>

\* The glob **/*<symbol>-<timeframe>-*.csv against the file named
\* <name>-<timeframe>-<date>.csv: the leading * takes any prefix of name.
GlobMatches(name, symbol) ==
    /\ Len(name) >= Len(symbol)
    /\ SubSeq(name, Len(name) - Len(symbol) + 1, Len(name)) = symbol

\* find_bundle_files(bundle_dir, timeframe, symbol), as slots.
FindBundleFiles(symbol) ==
    {s \in Slots : bundle[s].present /\ GlobMatches(names[s], symbol)}

\* find_bundle_files grouped by month: the slots of month mon, sorted.
FilesOf(mon) ==
    {s \in FindBundleFiles(BTCUSDT) : MonthFromFilename(s) = mon}
DailySeq(mon) ==
    IF mon = "2024-01"
    THEN SelectSeq(<<"2024-01-01", "2024-01-02">>,
                   LAMBDA s : s \in FindBundleFiles(BTCUSDT))
    ELSE << >>

\* Variant: a monthly file gets no preference; the daily files are read.
NoMonthlyPreference(mon) == FALSE

\* The file whose stem ends with the month, if there is one.
HasMonthlyFile(mon) == mon \in FilesOf(mon)

\* The slots main reads for month mon.
SlotsRead(mon) ==
    IF HasMonthlyFile(mon) THEN {mon}
    ELSE {DailySeq(mon)[i] : i \in 1..Len(DailySeq(mon))}

RECURSIVE ConcatOk(_)
\* pd.concat of the daily frames that could be read, in file order.
ConcatOk(slots) ==
    IF slots = << >> THEN << >>
    ELSE LET r == ReadBundleCsv(bundle[Head(slots)])
         IN (IF r.state = "ok" THEN r.frame ELSE << >>)
            \o ConcatOk(Tail(slots))

\* Variant: every readable file of the bundle dir goes into each month.
MonthFrameAllFiles(mon) ==
    Frame(DropDuplicatedKeepLast(
            ConcatOk(<<"2024-01", "2024-01-01", "2024-01-02", "2024-02">>)))

\* What the try block of a month hands to write_month_partition: nothing
\* when the monthly file raises or no daily file could be read.
MonthFrame(mon) ==
    IF HasMonthlyFile(mon)
    THEN LET r == ReadBundleCsv(bundle[mon])
         IN IF r.state = "ok" THEN Frame(r.frame) ELSE NoFrame
    ELSE IF \A i \in 1..Len(DailySeq(mon)) :
               ReadBundleCsv(bundle[DailySeq(mon)[i]]).state # "ok"
         THEN NoFrame
         ELSE Frame(DropDuplicatedKeepLast(ConcatOk(DailySeq(mon))))

\* info, the dict write_month_partition returns.
InfoOf(df) ==
    [present |-> TRUE, rows |-> Len(df),
     start_date |-> IF df = << >> THEN None ELSE df[1].ts,
     end_date |-> IF df = << >> THEN None ELSE df[Len(df)].ts]

\* Variant: a missing timeframe directory is fatal with --symbols too.
GrossFailureAnySymbols(given, tfd) == ~tfd

\* main returns 2: --symbols omitted and <bundle_dir>/<tf> missing.
GrossFailure(given, tfd) == ~given /\ ~tfd

\* The symbols main works on: those given, or those inferred from the names
\* in the timeframe directory.
HasSymbols(given, b) == given \/ \E s \in Slots : b[s].present

RECURSIVE SumRows(_)
SumRows(ms) ==
    IF ms = {} THEN 0
    ELSE LET m == CHOOSE x \in ms : TRUE
         IN month_infos[m].rows + SumRows(ms \ {m})

\* main(argv) up to the month loop.
ImportStart(b, tfd, given, dry_run, force) ==
    /\ pc = "idle"
    /\ program = "importer"
    /\ bundle' = b
    /\ tf_dir' = tfd
    /\ reads' = [s \in Slots |-> Unread]
    /\ month_infos' = [m \in Months |-> NoInfo]
    /\ call' = [NoCall EXCEPT !.op = "import",
                  !.symbols = IF given THEN <<Symbols[1]>> ELSE << >>,
                  !.dry_run = dry_run, !.force = force]
    /\ IF GrossFailure(given, tfd)
       THEN exit_code' = 2 /\ pc' = "done" /\ idx' = 0
       ELSE /\ exit_code' = None
            /\ idx' = 1
            /\ pc' = IF HasSymbols(given, b) THEN "imp_month" ELSE "imp_year"
    /\ UNCHANGED <<constVars, validatorVars,
                   fileVars, partition, month_manifest,
                   year_manifest, timeVars, localVars, histVars, since_ms,
                   end_time_ms, current_since, all_chunks, data_dict,
                   results, error>>

\* One pass of `for mon, fps in sorted(months.items())`.
ImportMonth ==
    /\ pc = "imp_month"
    /\ LET mon == MonthSeq[idx]
           got == MonthFrame(mon)
           f == partition[mon]
           old == ExistingRows(f, call.dry_run)
           combined == CombineMonth(old, got.rows)
       IN /\ reads' = [s \in Slots |->
                         IF s \in SlotsRead(mon)
                         THEN ReadBundleCsv(bundle[s]) ELSE reads[s]]
          /\ IF FilesOf(mon) = {} \/ ~got.present
             THEN UNCHANGED <<partition, month_manifest, month_infos,
                              localVars>>
             ELSE /\ had_file' = f.exists
                  /\ existing' = old
                  /\ combined_df' = got.rows
                  /\ final_df' = combined
                  /\ wrote' = mon
                  /\ partition' =
                        Persist(call.dry_run, partition,
                                [partition EXCEPT ![mon] = FileOf(combined)])
                  /\ month_manifest' =
                        Persist(call.dry_run, month_manifest,
                                [month_manifest EXCEPT
                                    ![mon] = MonthManifestOf(combined)])
                  /\ month_infos' = [month_infos EXCEPT ![mon] = InfoOf(combined)]
    /\ idx' = idx + 1
    /\ pc' = IF idx = Len(MonthSeq) THEN "imp_year" ELSE "imp_month"
    /\ UNCHANGED <<constVars, validatorVars,
                   fileVars, bundle, tf_dir, year_manifest,
                   exit_code, timeVars, histVars, call, since_ms, end_time_ms,
                   current_since, all_chunks, data_dict, results, error>>

\* The yearly roll-ups of this run's month_infos, then `return 0`.
ImportYearly ==
    /\ pc = "imp_year"
    /\ LET done == {m \in Months : month_infos[m].present}
       IN year_manifest' =
            IF done = {} THEN year_manifest
            ELSE Persist(call.dry_run, year_manifest,
                         [y \in Years |->
                            LET ms == {m \in done : YearOf(m) = y}
                            IN IF ms = {} THEN year_manifest[y]
                               ELSE [exists |-> TRUE, months |-> ms,
                                     rows |-> SumRows(ms)]])
    /\ exit_code' = 0
    /\ pc' = "done"
    /\ UNCHANGED <<constVars, validatorVars,
                   fileVars, partition, month_manifest, bundle,
                   tf_dir, reads, month_infos, timeVars, localVars, histVars,
                   call, idx, since_ms, end_time_ms, current_since,
                   all_chunks, data_dict, results, error>>

\* The process ends.
ImportExit ==
    /\ pc = "done"
    /\ call.op = "import"
    /\ pc' = "idle"
    /\ call' = NoCall
    /\ idx' = 0
    /\ reads' = [s \in Slots |-> Unread]
    /\ month_infos' = [m \in Months |-> NoInfo]
    /\ exit_code' = None
    /\ existing' = << >>
    /\ had_file' = FALSE
    /\ combined_df' = << >>
    /\ final_df' = << >>
    /\ wrote' = ""
    /\ UNCHANGED <<constVars, validatorVars,
                   fileVars, partition, month_manifest, bundle,
                   tf_dir, year_manifest, timeVars, histVars, since_ms,
                   end_time_ms, current_since, all_chunks, data_dict,
                   results, error>>

ImporterOn(frames) ==
    \E m \in Months, df \in frames, d \in BOOLEAN, f \in BOOLEAN :
        WriteMonthPartition(m, df, d, f)

ImporterNext == ImporterOn(BundleFrames)

\* ------------------------------------------- partition_existing_1m_csvs
\* The (year, month) group of a source row.  The two months of the model
\* meet at the midnight the candle instants straddle.
MonthOfTs(ts) == IF ts < MsPerDay THEN "2024-01" ELSE "2024-02"

\* The rows of the source that partition_file groups under month m, in
\* source order.
GroupOf(rows, m) == SelectSeq(rows, LAMBDA r : MonthOfTs(r.ts) = m)

\* partition_file(src, dry_run) on the canonical 1m CSV of the first symbol:
\* each month group is appended (mode='a') to the month file of the same
\* name, the header written only when the file is new.
PartitionFile(dry_run) ==
    /\ pc = "idle"
    /\ timeframe = "1m"
    /\ file[Symbols[1]].exists
    /\ LET src == file[Symbols[1]].rows IN
       /\ \A m \in Months :
             Len(partition[m].rows) + Len(GroupOf(src, m)) <= MaxPartitionRows
       /\ partition' =
             IF dry_run THEN partition
             ELSE [m \in Months |->
                     IF GroupOf(src, m) = << >> THEN partition[m]
                     ELSE FileOf(partition[m].rows \o GroupOf(src, m))]
       /\ existing' = src
    /\ had_file' = \E m \in Months : partition[m].exists
    /\ call' = [NoCall EXCEPT !.op = "partition_file", !.dry_run = dry_run]
    /\ pc' = "done"
    /\ UNCHANGED <<constVars, validatorVars, fileVars, month_manifest,
                   bundleVars, timeVars, combined_df, final_df, wrote,
                   histVars, idx, since_ms, end_time_ms, current_since,
                   all_chunks, data_dict, results, error>>

\* ------------------------------------------------------ CryptoDataValidator
\* hourly_manifest / daily_manifest of a validator: None, the content of a
\* JSON manifest, or the dict built by scanning the per-symbol folders.
NoGlobal == [present |-> FALSE, source |-> "", total_symbols |-> 0,
             total_rows |-> 0]
FromJson == [present |-> TRUE, source |-> "json", total_symbols |-> 0,
             total_rows |-> 0]
NoValidator == [state |-> "none", found_json |-> FALSE, error |-> "",
                hourly |-> NoGlobal, daily |-> NoGlobal]

\* CryptoDataValidator(data_dir): __init__ and load_manifests.  With JSON
\* manifests each one is loaded by its timeframe.  Without any, the first
\* statement of the else branch reads self.exchange_name, an attribute the
\* class never sets: AttributeError, and no validator is constructed.
ConstructValidator ==
    /\ pc = "idle"
    /\ validator' =
          IF json_manifests # {}
          THEN [state |-> "built", found_json |-> TRUE, error |-> "",
                hourly |-> IF "1h" \in json_manifests THEN FromJson
                           ELSE NoGlobal,
                daily |-> IF "1d" \in json_manifests THEN FromJson
                          ELSE NoGlobal]
          ELSE [state |-> "raised", found_json |-> FALSE,
                error |-> "AttributeError", hourly |-> NoGlobal,
                daily |-> NoGlobal]
    /\ UNCHANGED <<constVars, fileVars, importVars, timeVars, localVars,
                   histVars, json_manifests, pc, call, idx, since_ms,
                   end_time_ms, current_since, all_chunks, data_dict,
                   results, error>>

\* Someone puts a crypto_manifest_<tf>_*.json into the data directory.
PlaceJsonManifest(tf) ==
    /\ pc = "idle"
    /\ tf \notin json_manifests
    /\ json_manifests' = json_manifests \cup {tf}
    /\ UNCHANGED <<constVars, fileVars, importVars, timeVars, localVars,
                   histVars, validator, pc, call, idx, since_ms,
                   end_time_ms, current_since, all_chunks, data_dict,
                   results, error>>

\* --------------------------------------------------------------- behaviours
InitCommon ==
    /\ last_request_time = 0
    /\ prev_recorded = 0
    /\ issued_at = -1
    /\ file = [s \in SymbolSet |-> NoFile]
    /\ manifest = [s \in SymbolSet |-> NoManifest]
    /\ partition = [m \in Months |-> NoFile]
    /\ month_manifest = [m \in Months |-> NoManifest]
    /\ pc = "idle"
    /\ call = NoCall
    /\ idx = 0
    /\ since_ms = 0
    /\ end_time_ms = 0
    /\ current_since = 0
    /\ all_chunks = << >>
    /\ existing = << >>
    /\ had_file = FALSE
    /\ combined_df = << >>
    /\ final_df = << >>
    /\ data_dict = [s \in SymbolSet |-> NoFrame]
    /\ results = [s \in SymbolSet |-> NoFrame]
    /\ error = ""
    /\ wrote = ""
    /\ requests = 0
    /\ failed_at = 0
    /\ raised_syms = {}
    /\ last_page = << >>
    /\ visited = {}
    /\ json_manifests = {}
    /\ validator = NoValidator

\* No bundle directory, no import run.
NoBundle ==
    /\ names = [s \in Slots |-> BTCUSDT]
    /\ bundle = [s \in Slots |-> NoRaw]
    /\ tf_dir = FALSE
    /\ reads = [s \in Slots |-> Unread]
    /\ month_infos = [m \in Months |-> NoInfo]
    /\ year_manifest = [y \in Years |-> NoYearManifest]
    /\ exit_code = None

\* The wake-up times the clock offers a request: none pass when the fetcher
\* was built with rate_limit = 0 (it never sleeps).
WakeTimes == IF rate_limit = 0 THEN {clock} ELSE clock..MaxClock

\* Every step of the fetcher's calls, for symbol lists `lists` and an
\* exchange holding the rows R.
FetcherNext(lists, R) ==
    \/ \E syms \in lists, d \in DaysBackChoices, o \in OverlapChoices,
          b \in BOOLEAN, now \in NowChoices : UpdateStart(syms, d, o, b, now)
    \/ UpdatePlan
    \/ \E out \in Outcomes(R, current_since), w \in WakeTimes :
          UpdateFetch(out, w)
    \/ UpdateWrite
    \/ \E syms \in lists, d \in DaysBackChoices \ {None}, now \in NowChoices :
          HistStart(syms, d, now)
    \/ HistBegin
    \/ \E out \in Outcomes(R, current_since), w \in WakeTimes :
          HistFetch(out, w)
    \/ HistCombine
    \/ \E syms \in lists : LimitStart(syms)
    \/ \E out \in OutcomesNoSince(R), w \in WakeTimes : LimitFetch(out, w)
    \/ SaveSymbol
    \/ Exit

\* Time passes.
Tick ==
    /\ clock < MaxClock
    /\ clock' = clock + 1
    /\ UNCHANGED <<constVars, validatorVars,
                   fileVars, importVars, last_request_time,
                   prev_recorded, issued_at, pc, call, idx, since_ms,
                   end_time_ms, current_since, all_chunks, localVars,
                   data_dict, results, error, histVars>>

Init ==
    /\ InitCommon
    /\ \/ program = "fetcher" /\ timeframe \in Timeframes
       \/ program = "importer" /\ timeframe = "1m"
    /\ rate_limit = 0
    /\ utc_offset = 0
    /\ NoBundle
    /\ clock = rate_limit

Next == FetcherNext({<<Symbols[1]>>}, Rows) \/ ImporterNext

Spec == Init /\ [][Next]_vars

\* The chunk loops run to their end: a request is answered or times out.
FetchStep ==
    \E out \in Outcomes(Rows, current_since), w \in WakeTimes :
        UpdateFetch(out, w) \/ HistFetch(out, w)

SpecFair == Spec /\ WF_vars(FetchStep)

\* Closes that reach the statistics: a symbol whose earliest candle closes
\* at 0 or 100 and whose later candles close at 100 or 150 (a 50 % return).
Closes == {0, 100, 150}
FirstInstant == CHOOSE t \in Instants : \A u \in Instants : t <= u
StatRows ==
    {r \in [ts : Instants, v : Closes] :
        IF r.ts = FirstInstant THEN r.v # 150 ELSE r.v # 0}

InitStats ==
    /\ InitCommon
    /\ program \in {"fetcher", "importer"}
    /\ timeframe = "1m"
    /\ rate_limit = 0
    /\ utc_offset = 0
    /\ NoBundle
    /\ clock = rate_limit

NextStats ==
    \/ FetcherNext({<<Symbols[1]>>}, StatRows)
    \/ ImporterOn(SeqsUpTo(StatRows, MaxBundleRows))

SpecStats == InitStats /\ [][NextStats]_vars

\* read_bundle_csv alone, over files whose open-times lie on and around the
\* thresholds.
OpenTimes ==
    {1700, 1700000, 1700000000, MsThreshold, MsThreshold + 1, UsThreshold,
     UsThreshold + 1, -1700000}
RawRows == {RawRow(ot, 1) : ot \in OpenTimes} \cup {BadRow(1)}
RawFiles == {RawFile(c, rows) : c \in {5, 6}, rows \in SeqsUpTo(RawRows, MaxBundleRows)}

InitBundle ==
    /\ InitCommon
    /\ program = "reader"
    /\ timeframe = "1m"
    /\ rate_limit = 0
    /\ clock = 0
    /\ utc_offset = 0
    /\ \E f \in RawFiles :
          bundle = [s \in Slots |-> IF s = "2024-01" THEN f ELSE NoRaw]
    /\ tf_dir = TRUE
    /\ names = [s \in Slots |-> BTCUSDT]
    /\ reads = [s \in Slots |-> Unread]
    /\ month_infos = [m \in Months |-> NoInfo]
    /\ year_manifest = [y \in Years |-> NoYearManifest]
    /\ exit_code = None

NextBundle == \E s \in Slots : ReadBundleFile(s)

SpecBundle == InitBundle /\ [][NextBundle]_vars

\* Runs of the importer over bundle directories of one symbol: a monthly
\* and two daily files for January, a monthly file for February.
T1 == 1704067
T2 == 1704068
T3 == 1704069
FileA == RawFile(6, <<RawRow(T1, 1), RawRow(T2, 1)>>)
FileB == RawFile(6, <<RawRow(T2, 2), RawRow(T3, 2)>>)
ShortFile == RawFile(5, <<RawRow(T1, 1)>>)
BadTimeFile == RawFile(6, <<BadRow(1), RawRow(T3, 1)>>)
BundleDirs ==
    {b \in [Slots -> {NoRaw, FileA, FileB, ShortFile, BadTimeFile}] :
        /\ b["2024-01"] \in {NoRaw, FileA, ShortFile}
        /\ b["2024-01-01"] \in {NoRaw, FileA, BadTimeFile}
        /\ b["2024-01-02"] \in {NoRaw, FileB, ShortFile}
        /\ b["2024-02"] \in {NoRaw, FileB, ShortFile}}

InitImport ==
    /\ InitCommon
    /\ program = "importer"
    /\ timeframe = "1m"
    /\ rate_limit = 0
    /\ clock = 0
    /\ utc_offset = 0
    /\ NoBundle

NextImport ==
    \/ \E b \in BundleDirs, tfd \in BOOLEAN, given \in BOOLEAN,
          d \in BOOLEAN, f \in BOOLEAN : ImportStart(b, tfd, given, d, f)
    \/ ImportMonth
    \/ ImportYearly
    \/ ImportExit

SpecImport == InitImport /\ [][NextImport]_vars

\* Runs of the importer for BTCUSDT over bundle directories whose monthly
\* files are named after BTCUSDT, XBTCUSDT or ETHUSDT.
NameChoices ==
    {n \in [Slots -> {BTCUSDT, XBTCUSDT, ETHUSDT}] :
        n["2024-01-01"] = BTCUSDT /\ n["2024-01-02"] = BTCUSDT}
SearchDirs ==
    {b \in [Slots -> {NoRaw, FileA, FileB}] :
        b["2024-01-01"] = NoRaw /\ b["2024-01-02"] = NoRaw}

InitSearch ==
    /\ InitCommon
    /\ program = "importer"
    /\ timeframe = "1m"
    /\ rate_limit = 0
    /\ clock = 0
    /\ utc_offset = 0
    /\ names \in NameChoices
    /\ bundle = [s \in Slots |-> NoRaw]
    /\ tf_dir = FALSE
    /\ reads = [s \in Slots |-> Unread]
    /\ month_infos = [m \in Months |-> NoInfo]
    /\ year_manifest = [y \in Years |-> NoYearManifest]
    /\ exit_code = None

NextSearch ==
    \/ \E b \in SearchDirs, d \in BOOLEAN :
          ImportStart(b, TRUE, TRUE, d, FALSE)
    \/ ImportMonth
    \/ ImportYearly
    \/ ImportExit

SpecSearch == InitSearch /\ [][NextSearch]_vars

\* The fetcher on hosts whose local time is UTC, an hour ahead of it or an
\* hour behind it.
OffsetChoices == {-MsPerHour, 0, MsPerHour}

InitZones ==
    /\ InitCommon
    /\ program = "fetcher"
    /\ timeframe = "1m"
    /\ rate_limit = 0
    /\ clock = rate_limit
    /\ utc_offset \in OffsetChoices
    /\ NoBundle

NextZones == FetcherNext({<<Symbols[1]>>}, {r \in Rows : r.v = 1})

SpecZones == InitZones /\ [][NextZones]_vars

\* Two symbols per call, an exchange whose rows all close at 1.
RowsAtOne == {r \in Rows : r.v = 1}

InitMulti ==
    /\ InitCommon
    /\ program = "fetcher"
    /\ timeframe = "1m"
    /\ rate_limit = 0
    /\ utc_offset = 0
    /\ NoBundle
    /\ clock = rate_limit

NextMulti == FetcherNext({Symbols}, RowsAtOne)

SpecMulti == InitMulti /\ [][NextMulti]_vars

\* A rate-limited fetcher under a running clock.
InitRate ==
    /\ InitCommon
    /\ program = "fetcher"
    /\ timeframe = "1m"
    /\ rate_limit \in 1..MaxRate
    /\ utc_offset = 0
    /\ NoBundle
    /\ clock = rate_limit

NextRate == FetcherNext({<<Symbols[1]>>}, RowsAtOne) \/ Tick

SpecRate == InitRate /\ [][NextRate]_vars

\* The canonical 1m CSV written by fetch_historical_data and save_data, and
\* runs of partition_existing_1m_csvs over it.
InitPartition ==
    /\ InitCommon
    /\ program = "fetcher"
    /\ timeframe = "1m"
    /\ rate_limit = 0
    /\ utc_offset = 0
    /\ NoBundle
    /\ clock = rate_limit

NextPartition ==
    \/ \E now \in NowChoices : HistStart(<<Symbols[1]>>, 2, now)
    \/ HistBegin
    \/ \E out \in Outcomes(Rows, current_since), w \in WakeTimes :
          HistFetch(out, w)
    \/ HistCombine
    \/ SaveSymbol
    \/ Exit
    \/ \E d \in BOOLEAN : PartitionFile(d)

SpecPartition == InitPartition /\ [][NextPartition]_vars

\* A data directory filled by fetch_historical_data and save_data for 1h or
\* 1d, and validators constructed over it between the runs.
InitValidator ==
    /\ InitCommon
    /\ program = "fetcher"
    /\ timeframe \in {"1h", "1d"}
    /\ rate_limit = 0
    /\ utc_offset = 0
    /\ NoBundle
    /\ clock = rate_limit

NextValidator ==
    \/ \E syms \in {<<Symbols[1]>>, Symbols}, now \in NowChoices :
          HistStart(syms, 2, now)
    \/ HistBegin
    \/ \E out \in Outcomes(RowsAtOne, current_since), w \in WakeTimes :
          HistFetch(out, w)
    \/ HistCombine
    \/ SaveSymbol
    \/ Exit
    \/ ConstructValidator
    \/ \E tf \in {"1h", "1d"} : PlaceJsonManifest(tf)

SpecValidator == InitValidator /\ [][NextValidator]_vars

\* The updater next to an operator who deletes, damages or leaves behind
\* the manifest of a symbol between runs.
CorruptManifest == [exists |-> TRUE, rows |-> 0, start_date |-> None,
                    end_date |-> None, total_return |-> NullPct]
StaleManifest == [exists |-> TRUE, rows |-> 1, start_date |-> 0,
                  end_date |-> 0, total_return |-> NullPct]
ManifestEdits == {NoManifest, CorruptManifest, StaleManifest}

\* manifest_<timeframe>.yaml of symbol s is replaced behind the program's back.
EditManifest(s, m) ==
    /\ pc = "idle"
    /\ program = "fetcher"
    /\ manifest[s] # m
    /\ manifest' = [manifest EXCEPT ![s] = m]
    /\ UNCHANGED <<constVars, validatorVars,
                   file, importVars, timeVars, localVars,
                   histVars, pc, call, idx, since_ms, end_time_ms,
                   current_since, all_chunks, data_dict, results, error>>

InitManifest ==
    /\ InitCommon
    /\ program = "fetcher"
    /\ timeframe = "1h"
    /\ rate_limit = 0
    /\ utc_offset = 0
    /\ NoBundle
    /\ clock = rate_limit

NextManifest ==
    \/ \E d \in DaysBackChoices, o \in OverlapChoices, b \in BOOLEAN,
          now \in NowChoices : UpdateStart(<<Symbols[1]>>, d, o, b, now)
    \/ UpdatePlan
    \/ \E out \in Outcomes(Rows, current_since), w \in WakeTimes :
          UpdateFetch(out, w)
    \/ UpdateWrite
    \/ Exit
    \/ \E m \in ManifestEdits : EditManifest(Symbols[1], m)

SpecManifest == InitManifest /\ [][NextManifest]_vars


\* ------------------------------------------------------------------ claims
\* The value of the last row of s at timestamp t.
LastValAt(s, t) ==
    LET I == {i \in 1..Len(s) : s[i].ts = t}
    IN  s[CHOOSE i \in I : \A j \in I : j <= i].v

\* Every row of `stored` at a timestamp of `new` carries new's (last) value.
NewValueWins(stored, old, new) ==
    \A t \in TsOf(old) \cap TsOf(new) :
        /\ t \in TsOf(stored)
        /\ \A i \in 1..Len(stored) :
              stored[i].ts = t => stored[i].v = LastValAt(new, t)

\* update_symbols_to_now has just merged fetched rows into an existing CSV.
UpdateMerged ==
    /\ call.op = "update"
    /\ wrote # ""
    /\ all_chunks # << >>
    /\ had_file

\* write_month_partition has just written over an existing partition.
MonthMerged ==
    /\ call.op = "write_month_partition"
    /\ wrote # ""
    /\ ~call.dry_run
    /\ had_file

\* save_data has just processed a frame for a symbol whose CSV existed.
SaveMerged ==
    /\ call.op \in {"history", "limit"}
    /\ wrote # ""
    /\ had_file

\* C1: when update_symbols_to_now merges fetched rows into an existing file,
\* or write_month_partition (not dry-run) merges bundle rows into an existing
\* partition, every timestamp present in both the stored and the new rows
\* ends up stored with the new value.
C1_LastWriteWins ==
    /\ UpdateMerged => NewValueWins(file[wrote].rows, existing, combined_df)
    /\ MonthMerged =>
          NewValueWins(partition[wrote].rows, existing, combined_df)

\* A stored row was overwritten by a differing new one, in either writer.
C1_Witness ==
    /\ UpdateMerged \/ MonthMerged
    /\ \E t \in TsOf(existing) \cap TsOf(combined_df) :
          LastValAt(existing, t) # LastValAt(combined_df, t)

\* C2: when save_data is given fetched rows for a symbol whose file exists
\* and a fetched row has the timestamp of a stored row, the file holds the
\* fetched value afterwards.
C2_SaveDataLastWriteWins ==
    SaveMerged => NewValueWins(file[wrote].rows, existing, combined_df)

\* C3: every stored Series - canonical CSV or month partition - has strictly
\* increasing timestamps after any sequence of writer calls.
C3_SortInvariant ==
    /\ \A s \in SymbolSet : StrictlyIncreasing(file[s].rows)
    /\ \A m \in Months : StrictlyIncreasing(partition[m].rows)

\* C4: merging a Series (unique, increasing timestamps) with itself by the
\* writers' merge step leaves it as it was: same length, same content.
C4_DedupIdempotence ==
    (/\ UpdateMerged \/ MonthMerged
     /\ combined_df = existing
     /\ StrictlyIncreasing(existing))
    => /\ final_df = existing
       /\ UpdateMerged => file[wrote].rows = existing
       /\ MonthMerged => partition[wrote].rows = existing

\* A writer merged a Series of two rows with itself.
C4_Witness ==
    /\ UpdateMerged \/ MonthMerged
    /\ combined_df = existing
    /\ StrictlyIncreasing(existing)
    /\ Len(existing) >= 2

\* The bar duration of a timeframe.
BarDuration(tf) ==
    CASE tf = "1m" -> MsPerMinute
      [] tf = "1h" -> MsPerHour
      [] tf = "1d" -> MsPerDay

\* update_symbols_to_now has planned the fetch of the current symbol.
Planned == call.op = "update" /\ pc = "upd_fetch" /\ requests = 0

\* C5: with a Series file ending at T, update_symbols_to_now starts fetching
\* at T - overlap * D, D the bar duration of the timeframe, for every
\* timeframe.
C5_ResumeCorrectness ==
    (Planned /\ had_file)
    => since_ms = existing[Len(existing)].ts
                    - call.overlap * BarDuration(timeframe)

\* update_symbols_to_now has passed the planning of a symbol without a file.
PlannedNoFile ==
    /\ call.op = "update"
    /\ pc \in {"upd_fetch", "crashed"}
    /\ requests = 0
    /\ ~had_file

\* C6: with no Series file, update_symbols_to_now computes a since and goes
\* on to fetch, also with the days_back=None of update_symbol_latest.main.
C6_NoPriorDataProceeds == PlannedNoFile => pc = "upd_fetch"


\* The chunk loop of the current symbol has ended and its chunks stand.
LoopEnded ==
    \/ call.op = "update" /\ pc = "upd_write"
    \/ call.op = "update" /\ wrote # ""
    \/ call.op = "history" /\ pc = "hist_combine"

InLoop == pc \in {"upd_fetch", "hist_fetch"}

WithinEnd(s) == \A i \in 1..Len(s) : s[i].ts <= end_time_ms

\* C7: the chunked range fetch returns a Series that is deduplicated, sorted
\* and without a candle after the requested end; the page reaching the end is
\* trimmed and no page is requested after it.
C7_FetchWithinWindow ==
    /\ call.op = "history" =>
          \A s \in SymbolSet :
              StrictlyIncreasing(data_dict[s].rows) /\ WithinEnd(data_dict[s].rows)
    /\ (call.op = "update" /\ wrote # "") =>
          StrictlyIncreasing(combined_df) /\ WithinEnd(combined_df)
    /\ LoopEnded => WithinEnd(Concat(all_chunks))
    /\ InLoop =>
          \A k \in 1..Len(all_chunks) :
              /\ all_chunks[k] # << >>
              /\ all_chunks[k][Len(all_chunks[k])].ts < end_time_ms

\* A page that ran past the end was cut, and rows before the end were kept.
C7_Witness ==
    /\ LoopEnded
    /\ \E i \in 1..Len(last_page) : last_page[i].ts > end_time_ms
    /\ Concat(all_chunks) # << >>

\* C8: with pages that hold only timestamps >= the cursor in ascending order,
\* every further iteration moves the cursor strictly forward, never past the
\* end, and the loop ends.
C8_ChunkLoopTerminates ==
    /\ [][(InLoop /\ InLoop')
            => /\ current_since' > current_since
               /\ current_since' <= end_time_ms]_vars
    /\ (InLoop ~> ~InLoop)

\* Two full pages in a row, the cursor moved after each.
C8_Witness ==
    /\ pc = "upd_fetch"
    /\ Len(all_chunks) = 2
    /\ \A k \in 1..2 : Len(all_chunks[k]) = PageLimit
    /\ current_since > since_ms

\* C9: a raised request comes back as an empty page and never leaves
\* fetch_ohlcv_safe; the loop of that symbol issues no further request; the
\* pages fetched before are combined and returned or written; the call goes
\* on with the remaining symbols.
C9_RequestFailureContained ==
    /\ error \notin {"RequestError"}
    /\ (call.op \in {"update", "history"} /\ failed_at # 0) =>
          /\ requests = failed_at
          /\ last_page = << >>
          /\ ~InLoop
    /\ (call.op = "update" /\ wrote \in raised_syms) =>
          /\ results[wrote].present <=> (all_chunks # << >> \/ had_file)
          /\ RowsOf(CombineChunks(all_chunks)) \subseteq RowsOf(file[wrote].rows)
          /\ pc = IF idx <= Len(call.symbols) THEN "upd_plan" ELSE "done"
    /\ (call.op = "history" /\ pc \in {"hist_begin", "save"}
          /\ failed_at # 0 /\ wrote = "") =>
          /\ all_chunks # << >> =>
                \E s \in raised_syms :
                    data_dict[s] = Frame(CombineChunks(all_chunks))
    /\ (call.op \in {"update", "history"} /\ pc \in {"done", "save"}) =>
          visited = {call.symbols[i] : i \in 1..Len(call.symbols)}

\* The first symbol's request raised after a full page; that page was
\* written to a new file and the call turned to the second symbol.
C9_Witness ==
    /\ call.op = "update"
    /\ pc = "upd_plan"
    /\ idx = 2
    /\ wrote = call.symbols[1]
    /\ wrote \in raised_syms
    /\ failed_at = 2
    /\ ~had_file
    /\ Len(file[wrote].rows) = PageLimit

\* C10: a request is issued no earlier than rate_limit after the time the
\* previous call recorded, and every call records its time, slept or not,
\* failed or not.
C10_RateLimit ==
    issued_at # -1 =>
        /\ issued_at >= prev_recorded + rate_limit
        /\ last_request_time = issued_at

\* A request that raised, issued after a sleep that ended exactly rate_limit
\* after the previous call's recorded time.
C10_Witness ==
    /\ prev_recorded > 0
    /\ issued_at = prev_recorded + rate_limit
    /\ failed_at = requests
    /\ requests > 0


\* ---------------------------------------------------------------- manifests
\* A fetcher writer (save_data, update_symbols_to_now) has just ended the
\* iteration of symbol `wrote` with rows to describe.
FetcherDescribed ==
    /\ call.op \in {"update", "history", "limit"}
    /\ wrote # ""
    /\ final_df # << >>

\* write_month_partition has just written month `wrote`.
MonthDescribed ==
    /\ call.op = "write_month_partition"
    /\ wrote # ""
    /\ ~call.dry_run

\* pct is (last close / first close - 1) * 100 of a Series s with >= 2 rows
\* and a non-zero first close, and null for a Series with less than 2 rows.
IsReturnOf(pct, s) ==
    /\ (Len(s) >= 2 /\ s[1].v # 0) =>
          /\ pct.kind = "num"
          /\ pct.num * s[1].v = (s[Len(s)].v - s[1].v) * 100 * pct.den
    /\ Len(s) < 2 => pct.kind \in {"null", "absent"}

\* C11: every manifest writer records total_return_pct = (last close / first
\* close - 1) * 100 for a Series with at least 2 rows and null for a Series
\* with fewer than 2 rows.
C11_TotalReturnFormula ==
    /\ FetcherDescribed => IsReturnOf(manifest[wrote].total_return, final_df)
    /\ MonthDescribed =>
          IsReturnOf(month_manifest[wrote].total_return, final_df)

\* C12: with a first close of 0 every manifest writer records null.
C12_ZeroFirstClose ==
    /\ (FetcherDescribed /\ final_df[1].v = 0) =>
          manifest[wrote].total_return.kind = "null"
    /\ (MonthDescribed /\ final_df # << >> /\ final_df[1].v = 0) =>
          month_manifest[wrote].total_return.kind = "null"

\* A manifest of an empty Series: 0 rows, no dates, no statistics.
IsEmptyManifest(m) ==
    /\ m.exists
    /\ m.rows = 0
    /\ m.start_date = None
    /\ m.end_date = None
    /\ m.total_return.kind \in {"null", "absent"}

\* C13: when the final Series of a symbol or month is empty the writers raise
\* no error and write a manifest with 0 rows and null dates and statistics.
C13_EmptySeriesDegrades ==
    /\ (call.op = "update" /\ wrote # "" /\ results[wrote].present
          /\ final_df = << >>) => IsEmptyManifest(manifest[wrote])
    /\ (MonthDescribed /\ final_df = << >>) =>
          IsEmptyManifest(month_manifest[wrote])

\* The manifest m describes the rows s of the file it lies next to.
Describes(m, s) ==
    /\ m.exists
    /\ m.rows = Len(s)
    /\ m.start_date = s[1].ts
    /\ m.end_date = s[Len(s)].ts

\* C17: a non-empty Series file on disk has a manifest next to it whose rows,
\* start date and end date are the file's row count, first and last
\* timestamp - after every writer call, also one that added no row.
C17_ManifestFollowsSeries ==
    /\ \A s \in SymbolSet :
          file[s].rows # << >> => Describes(manifest[s], file[s].rows)
    /\ \A m \in Months :
          partition[m].rows # << >>
              => Describes(month_manifest[m], partition[m].rows)

\* update_symbols_to_now found no new row and rewrote the manifest of a file
\* of two rows.
C17_Witness ==
    /\ call.op = "update"
    /\ wrote # ""
    /\ all_chunks = << >>
    /\ Len(file[wrote].rows) = 2
    /\ Describes(manifest[wrote], file[wrote].rows)


\* ------------------------------------------------------------ bundle files
\* The file of slot s has been read.
WasRead(s) == reads[s].state = "ok"

NumericRows(s) == SelectSeq(bundle[s].rows, LAMBDA r : r.numeric)

\* The unit the thresholds 1e14 and 1e11 give the largest absolute value m.
UnitByMagnitude(m) ==
    IF m > 100000000 THEN "us" ELSE IF m > 100000 THEN "ms" ELSE "s"

\* C14: read_bundle_csv picks one unit per file from the largest absolute
\* open-time m - microseconds if m > 1e14, else milliseconds if m > 1e11,
\* else seconds - so that 1.7e15, 1.7e12 and 1.7e9 are read as microseconds,
\* milliseconds and seconds, and every row is decoded with that unit.
C14_UnitAutoDetection ==
    \A s \in Slots :
        WasRead(s) =>
            LET rows == NumericRows(s)
                m == MaxAbs(rows)
            IN /\ reads[s].unit = UnitByMagnitude(m)
               /\ m = 1700000000 => reads[s].unit = "us"
               /\ m = 1700000 => reads[s].unit = "ms"
               /\ m = 1700 => reads[s].unit = "s"
               /\ reads[s].frame = DecodeRows(rows, reads[s].unit)

\* A file holding 1.7e12 and 1.7e15 was read: both rows decoded as
\* microseconds.
C14_Witness ==
    \E s \in Slots :
        /\ WasRead(s)
        /\ reads[s].unit = "us"
        /\ Len(reads[s].frame) = 2
        /\ \E i \in 1..2 : bundle[s].rows[i].open_time = 1700000
        /\ \E i \in 1..2 : reads[s].frame[i].ts = 1700000


\* ------------------------------------------------------------ import runs
\* A run of main has returned.
ImportDone == pc = "done" /\ call.op = "import"

\* The months this run wrote a partition for.
MonthsDone == {m \in Months : month_infos[m].present}

RECURSIVE RowsOnDisk(_)
\* The rows of the partitions of the months ms, counted on disk.
RowsOnDisk(ms) ==
    IF ms = {} THEN 0
    ELSE LET m == CHOOSE x \in ms : TRUE
         IN Len(partition[m].rows) + RowsOnDisk(ms \ {m})

\* C15: in a run over several months each month's bundle rows go to that
\* month's partition only - an empty partition ends with one row per
\* timestamp of its own month's file, whatever the other month's file
\* shares with it - and the yearly roll-up written at the end reports the
\* sum of the rows of the month partitions the run processed.
C15_MonthsStaySeparate ==
    /\ [][(pc = "imp_month" /\ ~call.dry_run) =>
            LET mon == MonthSeq[idx]
                r == ReadBundleCsv(bundle[mon])
            IN /\ \A m \in Months \ {mon} : partition'[m] = partition[m]
               /\ (HasMonthlyFile(mon) /\ r.state = "ok"
                     /\ ~partition[mon].exists) =>
                     /\ TsOf(partition'[mon].rows) = TsOf(r.frame)
                     /\ StrictlyIncreasing(partition'[mon].rows)]_vars
    /\ [](ImportDone /\ exit_code = 0 /\ ~call.dry_run /\ MonthsDone # {}
            => /\ year_manifest["2024"].exists
               /\ year_manifest["2024"].months = MonthsDone
               /\ year_manifest["2024"].rows = RowsOnDisk(MonthsDone))

\* Two monthly files of two rows sharing one timestamp were imported: two
\* partitions of two rows, a roll-up of four.
C15_Witness ==
    /\ ImportDone
    /\ ~call.dry_run
    /\ bundle["2024-01"] = FileA
    /\ bundle["2024-02"] = FileB
    /\ MonthsDone = Months
    /\ Len(partition["2024-01"].rows) = 2
    /\ Len(partition["2024-02"].rows) = 2
    /\ TsOf(partition["2024-01"].rows) \cap TsOf(partition["2024-02"].rows) # {}
    /\ year_manifest["2024"].rows = 4

\* C16: between runs the yearly roll-up of a year lists every month
\* partition of that year on disk, and its rows are their total row count.
C16_RollUpMatchesDisk ==
    pc \in {"idle", "done"} =>
        \A y \in Years :
            LET on_disk == {m \in Months : partition[m].exists /\ YearOf(m) = y}
            IN on_disk # {} =>
                  /\ year_manifest[y].exists
                  /\ year_manifest[y].months = on_disk
                  /\ year_manifest[y].rows = RowsOnDisk(on_disk)

\* A bundle file with fewer than 6 columns or an open-time that is no number.
Malformed(s) ==
    /\ bundle[s].present
    /\ \/ bundle[s].cols < 6
       \/ \E i \in 1..Len(bundle[s].rows) : ~bundle[s].rows[i].numeric

\* C18: a malformed bundle file is skipped and contributes no row; every
\* other file main selects - the monthly file of a month, its daily files
\* when there is none - is imported in the same run.
C18_MalformedFileSkipped ==
    (ImportDone /\ exit_code = 0 /\ ~call.dry_run) =>
        \A s \in Slots :
            /\ Malformed(s) => reads[s].state # "ok"
            /\ (bundle[s].present /\ ~Malformed(s)
                  /\ s \in SlotsRead(MonthFromFilename(s))) =>
                  /\ reads[s].state = "ok"
                  /\ TsOf(reads[s].frame)
                        \subseteq TsOf(partition[MonthFromFilename(s)].rows)

\* C19: main returns 2 when --symbols is omitted and the timeframe directory
\* is missing, and 0 in every other case, whatever failed to import.
C19_ExitCode ==
    /\ pc # "crashed"
    /\ ImportDone =>
          exit_code = IF call.symbols = << >> /\ ~tf_dir THEN 2 ELSE 0

\* A run with symbols given and no timeframe directory, in which the
\* monthly file of January failed and February was imported, returned 0.
C19_Witness ==
    /\ ImportDone
    /\ exit_code = 0
    /\ ~tf_dir
    /\ reads["2024-01"].state = "failed"
    /\ MonthsDone = {"2024-02"}


\* ------------------------------------------------------------ the cut-off
\* The timestamps update_symbols_to_now has just added to the file.
AddedTs == TsOf(file[wrote].rows) \ TsOf(existing)

\* Midnight UTC of the day of the call.
StartOfUtcDay == (call.now \div 86400000) * 86400000

\* C20: with include_now false update_symbols_to_now adds no candle at or
\* after the start of the current UTC day; with include_now true none later
\* than the time of the call.
C20_EndOfYesterdayCutOff ==
    (call.op = "update" /\ wrote # "") =>
        \A ts \in AddedTs :
            IF call.include_now THEN ts <= call.now ELSE ts < StartOfUtcDay


\* ----------------------------------------------------- dry run and force
\* A run of main with --dry-run is under way or has just returned.
DryRun == call.op = "import" /\ call.dry_run

\* C21: a run of the importer with --dry-run creates and modifies no
\* partition CSV, no per-month manifest and no yearly roll-up: every step
\* of the run, its start included, leaves all three as they were.
C21_DryRunWritesNothing ==
    [][(DryRun \/ DryRun') =>
          /\ partition' = partition
          /\ month_manifest' = month_manifest
          /\ year_manifest' = year_manifest]_vars

\* A dry run went through a month whose partition an earlier run had
\* written with other timestamps; the plan differs from the disk.
C21_Witness ==
    /\ ImportDone
    /\ call.dry_run
    /\ exit_code = 0
    /\ \E m \in MonthsDone :
          /\ partition[m].exists
          /\ TsOf(final_df) # TsOf(partition[m].rows)
          /\ wrote = m

\* C22: write_month_partition with force on a month whose partition exists
\* overwrites it: afterwards the partition holds exactly the imported
\* bundle rows, deduplicated and sorted, and no row that only the previous
\* partition had.
C22_ForceOverwrites ==
    (pc = "done" /\ call.op = "write_month_partition" /\ call.force
       /\ ~call.dry_run /\ had_file) =>
        partition[call.month].rows =
            SortIndex(DropDuplicatedKeepLast(combined_df))


\* --------------------------------------------------- resuming from the file
\* The Series a run of update_symbols_to_now leaves, from the stored file
\* and the pages it fetched.
SeriesFrom(f, chunks) ==
    IF chunks = << >> THEN f
    ELSE LET new == SortIndex(DropDuplicatedKeepLast(Concat(chunks)))
         IN FileOf(IF f.exists
                   THEN SortIndex(DropDuplicatedKeepLast(f.rows \o new))
                   ELSE new)

\* C23: the since value update_symbols_to_now computes for a stored Series
\* is its last row's timestamp minus overlap bars of the timeframe, and the
\* Series it writes is made of the stored file and the fetched pages -
\* whatever the manifest holds (missing, stale or corrupt), so runs that
\* differ only in the manifest plan and write alike.
C23_SeriesIsSourceOfTruth ==
    [][/\ (pc = "upd_plan" /\ pc' = "upd_fetch" /\ file[CurSym].exists) =>
            since_ms' = file[CurSym].rows[Len(file[CurSym].rows)].ts
                           - call.overlap * Interval(timeframe)
       /\ pc = "upd_write" =>
            file'[CurSym] = SeriesFrom(file[CurSym], all_chunks)]_vars

\* A run resumed from a stored Series while its manifest was stale: the
\* manifest's end_date is not the file's last timestamp.
C23_Witness ==
    /\ pc = "upd_fetch"
    /\ had_file
    /\ manifest[CurSym] = StaleManifest
    /\ manifest[CurSym].end_date # existing[Len(existing)].ts
    /\ since_ms = existing[Len(existing)].ts
                     - call.overlap * Interval(timeframe)


\* ------------------------------------------------------ stored history
\* C26: on an existing file save_data adds only fetched rows whose timestamp
\* is strictly greater than the last stored timestamp; every previously
\* stored row is still in the file with its timestamp and values; a fetched
\* row at or before the last stored timestamp is discarded, also when the
\* file has no row at its timestamp.
C26_SaveDataAppendOnly ==
    SaveMerged =>
        LET last_ts == existing[Len(existing)].ts
            stored == file[wrote].rows
        IN /\ \A r \in RowsOf(stored) \ RowsOf(existing) :
                 r.ts > last_ts /\ r \in RowsOf(combined_df)
           /\ \A i \in 1..Len(existing) : existing[i] \in RowsOf(stored)
           /\ \A r \in RowsOf(combined_df) :
                 (r.ts <= last_ts /\ r.ts \notin TsOf(existing)) =>
                     r.ts \notin TsOf(stored)

\* C27: no call of save_data, update_symbols_to_now or a non-forced
\* write_month_partition removes a stored timestamp: after every step a
\* Series file that existed still exists and holds every timestamp it held.
C27_HistoryNeverShrinks ==
    [][/\ \A s \in SymbolSet :
            /\ file[s].exists => file'[s].exists
            /\ TsOf(file[s].rows) \subseteq TsOf(file'[s].rows)
       /\ ~call'.force =>
            \A m \in Months :
               /\ partition[m].exists => partition'[m].exists
               /\ TsOf(partition[m].rows) \subseteq TsOf(partition'[m].rows)]_vars

\* A writer has just merged new timestamps into a file that held others.
C27_Witness ==
    /\ UpdateMerged \/ SaveMerged \/ (MonthMerged /\ ~call.force)
    /\ TsOf(existing) \ TsOf(combined_df) # {}
    /\ TsOf(combined_df) \ TsOf(existing) # {}
    /\ TsOf(existing) \subseteq
          (IF MonthMerged THEN TsOf(partition[wrote].rows)
           ELSE TsOf(file[wrote].rows))


\* ------------------------------------------------- monthly and daily files
\* The daily slots in sorted filename order.
DayOrder == <<"2024-01-01", "2024-01-02">>

\* The daily files found for month mon, as positions of DayOrder.
DaysFound(mon) ==
    {i \in 1..Len(DayOrder) :
        bundle[DayOrder[i]].present /\ MonthFromFilename(DayOrder[i]) = mon}

\* C24: a month for which a monthly bundle is found is imported from the
\* monthly file alone, no daily file is read; a month with daily bundles
\* only is imported from all of them, and a timestamp present in several
\* daily files comes with the row of the last file in sorted filename order.
C24_MonthlyFilePreferred ==
    [][pc = "imp_month" =>
         LET mon == MonthSeq[idx]
             days == DaysFound(mon)
         IN IF bundle[mon].present
            THEN /\ \A s \in Slots \ {mon} : reads'[s] = reads[s]
                 /\ reads'[mon] # Unread
                 /\ reads'[mon].state = "ok" =>
                       wrote' = mon /\ combined_df' = reads'[mon].frame
            ELSE /\ \A i \in days : reads'[DayOrder[i]] # Unread
                 /\ (wrote' = mon /\ days # {}) =>
                       /\ TsOf(combined_df') =
                             UNION {TsOf(reads'[DayOrder[i]].frame) : i \in days}
                       /\ \A t \in TsOf(combined_df') :
                             LET last == CHOOSE i \in days :
                                   /\ t \in TsOf(reads'[DayOrder[i]].frame)
                                   /\ \A j \in days :
                                        t \in TsOf(reads'[DayOrder[j]].frame)
                                           => j <= i
                             IN \A k \in 1..Len(combined_df') :
                                   combined_df'[k].ts = t =>
                                      combined_df'[k].v =
                                         LastValAt(reads'[DayOrder[last]].frame, t)]_vars

\* January was imported from two daily files that share a timestamp; the
\* shared timestamp carries the close of the later file.
C24_Witness ==
    /\ pc \in {"imp_month", "imp_year"}
    /\ wrote = "2024-01"
    /\ ~bundle["2024-01"].present
    /\ reads["2024-01-01"].state = "ok"
    /\ reads["2024-01-02"].state = "ok"
    /\ \E t \in TsOf(reads["2024-01-01"].frame)
                  \cap TsOf(reads["2024-01-02"].frame) :
          /\ LastValAt(reads["2024-01-01"].frame, t)
                # LastValAt(reads["2024-01-02"].frame, t)
          /\ LastValAt(combined_df, t) = LastValAt(reads["2024-01-02"].frame, t)
    /\ Len(combined_df) = 3


\* ------------------------------------------------------- the bundle search
\* The bundle files of the directory that are named after the symbol.
FilesNamed(symbol) ==
    {s \in Slots : bundle[s].present /\ names[s] = symbol}

\* C28: find_bundle_files returns only files whose embedded symbol is the
\* requested one, and the rows handed to a month partition of the requested
\* symbol all come from files of that symbol - none from a file of a symbol
\* whose name merely ends with the requested name.
C28_SymbolIsolation ==
    call.op = "import" =>
        /\ FindBundleFiles(BTCUSDT) \subseteq FilesNamed(BTCUSDT)
        /\ wrote # "" =>
              RowsOf(combined_df) \subseteq
                  UNION {RowsOf(ReadBundleCsv(bundle[s]).frame) :
                           s \in FilesNamed(BTCUSDT)}


\* ------------------------------------------------------------ the validator
\* The symbols with a canonical CSV of timeframe tf in the data directory.
Scanned(tf) == IF timeframe = tf THEN {s \in SymbolSet : file[s].exists} ELSE {}

RECURSIVE RowsIn(_)
\* The rows of the CSVs of the symbols S, summed.
RowsIn(S) ==
    IF S = {} THEN 0
    ELSE LET x == CHOOSE y \in S : TRUE
         IN Len(file[x].rows) + RowsIn(S \ {x})

\* C25: constructing a CryptoDataValidator over a data directory without
\* any crypto_manifest_*.json completes without error, and the hourly and
\* the daily manifest it builds count the symbols having a canonical CSV of
\* that timeframe and the sum of their rows.
C25_ValidatorFallback ==
    [][(validator' # validator /\ json_manifests = {}) =>
          /\ validator'.state = "built"
          /\ Scanned("1h") # {} =>
                /\ validator'.hourly.total_symbols = Cardinality(Scanned("1h"))
                /\ validator'.hourly.total_rows = RowsIn(Scanned("1h"))
          /\ Scanned("1d") # {} =>
                /\ validator'.daily.total_symbols = Cardinality(Scanned("1d"))
                /\ validator'.daily.total_rows = RowsIn(Scanned("1d"))]_vars


\* ------------------------------------------------------------- no new data
\* The fetch of the current symbol gave no page: its first request came
\* back empty or failed.
NoPage == requests = 1 /\ last_page = << >>

\* C29: when the fetch for a symbol in update_symbols_to_now yields no page
\* and a Series file exists, the file keeps exactly its previous rows and
\* the stored Series is what the call returns for that symbol.
C29_NoNewDataLeavesSeries ==
    [][(pc = "upd_write" /\ NoPage /\ file[CurSym].exists) =>
          /\ file' = file
          /\ results'[CurSym] = Frame(file[CurSym].rows)]_vars

\* An update over a stored Series whose only request failed has ended with
\* the Series as it was.
C29_Witness ==
    /\ call.op = "update"
    /\ pc = "done"
    /\ wrote # ""
    /\ had_file
    /\ NoPage
    /\ failed_at = 1
    /\ existing # << >>
    /\ file[wrote].rows = existing
    /\ results[wrote] = Frame(existing)


\* --------------------------------------------------- partitioning a Series
\* C30: after partition_file has run without dry-run, each destination
\* month file holds at most one row per timestamp, also when the file
\* already existed before the run.
C30_OneRowPerTimestamp ==
    (call.op = "partition_file" /\ pc = "done" /\ ~call.dry_run) =>
        \A m \in Months :
            Cardinality(TsOf(partition[m].rows)) = Len(partition[m].rows)

=============================================================================
